---- MODULE Spec2Model ----
(***************************************************************************)
(* Model of services/googleSheets.service.js: the GoogleSheetsService      *)
(* singleton that keeps an order ledger in the 'Orders' tab of a Google    *)
(* spreadsheet.  Every method is async: it runs synchronously up to each   *)
(* `await` of a store call, and other callers' code may run in between.    *)
(* One action of the model is one such atomic slice: the resolution (or    *)
(* rejection) of the awaited store call together with the synchronous code *)
(* that follows it up to the next await or the return.                     *)
(***************************************************************************)
EXTENDS Integers, Sequences, FiniteSets, TLC

(* ------------------------------------------------------------------ *)
(* Bounds of the model                                                  *)
(* ------------------------------------------------------------------ *)

\* Number of calls the callers make in one run, all callers together.
MaxCalls == 4

\* Number of distinct instants new Date() can return.
MaxClock == 2

\* Number of order records of a ledger that lookups and racing updates
\* start from.
MaxRows == 2

(* ------------------------------------------------------------------ *)
(* Schema, cells and rows                                               *)
(* ------------------------------------------------------------------ *)

\* The header row written by ensureHeaders, in schema order.
Headers ==
  << "order_id", "order_number", "customer_name", "phone", "total_amount",
     "items_summary", "status", "last_customer_message", "confirmed_at",
     "created_at" >>

\* Number of columns of the range A:J.
NumCols == Len(Headers)

\* 1-based column numbers (the code's 0-based index + 1).
ColOrderId == 1
ColPhone == 4
ColStatus == 7
ColMessage == 8
ColConfirmedAt == 9
ColCreatedAt == 10

\* A row of the grid with every cell empty.
BlankRow == [c \in 1..NumCols |-> ""]

\* A hole of a JS array (serialised as null: the store skips the cell).
Hole == "<hole>"

\* The `undefined` a JS expression yields for a missing property.
Undefined == "<undefined>"

\* JS truthiness of a string-or-undefined value.
Truthy(v) == v # "" /\ v # Undefined /\ v # Hole

\* a || b on string-or-undefined values.
Or(a, b) == IF Truthy(a) THEN a ELSE b

\* new Date().toISOString() at instant n; later instants give greater strings.
ISO ==
  << "2026-11-03T10:00:00.001Z", "2026-11-03T10:00:00.002Z",
     "2026-11-03T10:00:00.003Z", "2026-11-03T10:00:00.004Z" >>

\* A confirmed-at timestamp a caller supplies in additionalData.
OverrideTs == "2026-11-01T09:00:00.000Z"

PENDING == "PENDING_CONFIRMATION"
CONFIRMED == "CONFIRMED"
CANCELLED == "CANCELLED"

(* ------------------------------------------------------------------ *)
(* The store (Google Sheets values API) as the code uses it             *)
(* ------------------------------------------------------------------ *)

RECURSIVE TrimCells(_)
\* values.get omits the trailing empty cells of a row.
TrimCells(r) ==
  IF r = <<>> THEN <<>>
  ELSE IF r[Len(r)] = "" THEN TrimCells(SubSeq(r, 1, Len(r) - 1))
  ELSE r

RECURSIVE LastRow(_)
\* Index of the last row of the grid that holds a non-empty cell (0: none).
LastRow(g) ==
  IF g = <<>> THEN 0
  ELSE IF TrimCells(g[Len(g)]) # <<>> THEN Len(g)
  ELSE LastRow(SubSeq(g, 1, Len(g) - 1))

\* values.get of A<n>:J<n>: response.data.values ([] stands for undefined).
ValuesGetRow(g, n) ==
  IF n \in 1..Len(g) /\ TrimCells(g[n]) # <<>> THEN << TrimCells(g[n]) >>
  ELSE <<>>

\* values.get of A:A: one entry per row up to the last non-empty cell of
\* column A, an entry being [] where the cell is empty.
ValuesGetColumnA(g) ==
  LET colA == [i \in 1..Len(g) |-> << g[i][ColOrderId] >>]
      last == LastRow(colA)
  IN  [i \in 1..last |-> TrimCells(colA[i])]

\* values.get of A2:J: the rows below row 1, each trimmed.
ValuesGetData(g) ==
  LET last == LastRow(g)
  IN  [i \in 1..(IF last >= 2 THEN last - 1 ELSE 0) |-> TrimCells(g[i + 1])]

\* The grid grown with blank rows so that row n exists.
PadTo(g, n) == [i \in 1..(IF n > Len(g) THEN n ELSE Len(g)) |->
                  IF i <= Len(g) THEN g[i] ELSE BlankRow]

\* Faulty variant: the write of a row leaves the message cell as it is.
ValuesUpdateRowKeepsMessage(g, n, cells) ==
  LET p == PadTo(g, n)
  IN  [p EXCEPT ![n] =
         [c \in 1..NumCols |->
            IF c <= Len(cells) /\ cells[c] # Hole /\ c # ColMessage
            THEN cells[c] ELSE p[n][c]]]

\* values.update of A<n>:J<n> with RAW values: overwrites the addressed
\* cells the request gives a value for; a null (hole) leaves the cell.
ValuesUpdateRow(g, n, cells) ==
  LET p == PadTo(g, n)
  IN  [p EXCEPT ![n] =
         [c \in 1..NumCols |->
            IF c <= Len(cells) /\ cells[c] # Hole THEN cells[c] ELSE p[n][c]]]

\* Faulty variant: the message update rewrites the row from column A on.
ValuesUpdateCellFromA(g, n, col, v) ==
  LET p == PadTo(g, n)
  IN  [p EXCEPT ![n] = [c \in 1..NumCols |-> IF c = 1 THEN v ELSE p[n][c]]]

\* values.update of the single cell H<n>.
ValuesUpdateCell(g, n, col, v) ==
  LET p == PadTo(g, n)
  IN  [p EXCEPT ![n][col] = v]

\* values.append to A:J with INSERT_ROWS: the row goes right after the last
\* row of the table, which is row 1 when the sheet is empty.
ValuesAppend(g, cells) ==
  ValuesUpdateRow(SubSeq(g, 1, LastRow(g)), LastRow(g) + 1,
                  [c \in 1..NumCols |-> IF c <= Len(cells) THEN cells[c] ELSE ""])

(* ------------------------------------------------------------------ *)
(* Inputs: upstream order objects, identifiers, phones                  *)
(* ------------------------------------------------------------------ *)

\* An order with a shipping phone, a customer phone, a price and a sized item.
Order1 ==
  [ _id |-> "o1", orderSerial |-> "1001",
    customer |-> [name |-> "Ann", phone |-> "55"],
    shippingAddress |-> [phone |-> "+1 55"],
    totalPrice |-> [amount |-> 20],
    items |-> << [title |-> "Shirt", quantity |-> 2,
                  options |-> << [name |-> "Size", value |-> "M"] >>] >> ]

\* An order with no customer name, no phone, no price and two items.
Order2 ==
  [ _id |-> "o2", orderSerial |-> "1002",
    customer |-> [name |-> Undefined, phone |-> Undefined],
    shippingAddress |-> [phone |-> Undefined],
    items |-> << [title |-> "Cap", quantity |-> 1, options |-> <<>>],
                 [title |-> "Sock", quantity |-> 3,
                  options |-> << [name |-> "Color", value |-> "Red"] >>] >> ]

Orders == {Order1, Order2}

\* An order whose only phone is a text without digits.
Order3 ==
  [ _id |-> "o3", orderSerial |-> "1003",
    customer |-> [name |-> "Cy", phone |-> "n/a"],
    shippingAddress |-> [phone |-> Undefined],
    totalPrice |-> [amount |-> 5],
    items |-> << >> ]

\* An order of another customer, with a customer phone only.
Order4 ==
  [ _id |-> "o4", orderSerial |-> "1004",
    customer |-> [name |-> "Di", phone |-> "77"],
    shippingAddress |-> [phone |-> Undefined],
    totalPrice |-> [amount |-> 9],
    items |-> << [title |-> "Hat", quantity |-> 1, options |-> <<>>] >> ]

\* The orders found in a ledger that is already in use.
LedgerOrders == Orders \cup {Order3, Order4}

\* order_id arguments of the update operations: the ids of the orders and
\* the text of the header cell A1.
OrderIdArgs == {o._id : o \in Orders} \cup {Headers[ColOrderId]}

StatusArgs == {PENDING, CONFIRMED, CANCELLED}

\* additionalData arguments: {} , {confirmedAt: ''} , {confirmedAt: <ts>}.
AdditionalDataArgs ==
  {[confirmedAt |-> v] : v \in {Undefined, "", OverrideTs}}

MessageArgs == {"yes please"}

PhoneArgs == {"55", "(77)", "n/a"}

\* phone arguments of the lookups on a ledger in use: the above and a
\* number written with its international prefix.
LookupPhones == PhoneArgs \cup {"001 55"}

\* The characters of every phone string of the model.
PhoneChars(s) ==
  CASE s = "" -> <<>>
    [] s = "55" -> << "5", "5" >>
    [] s = "77" -> << "7", "7" >>
    [] s = "+1 55" -> << "+", "1", " ", "5", "5" >>
    [] s = "001 55" -> << "0", "0", "1", " ", "5", "5" >>
    [] s = "(77)" -> << "(", "7", "7", ")" >>
    [] s = "n/a" -> << "n", "/", "a" >>
    [] s = Headers[ColPhone] -> << "p", "h", "o", "n", "e" >>

DigitChars == {"0", "1", "2", "3", "4", "5", "6", "7", "8", "9"}

(* ------------------------------------------------------------------ *)
(* Pure functions of the code                                           *)
(* ------------------------------------------------------------------ *)

\* row[c-1] of a JS array: undefined past its end.
Cell(r, c) == IF c \in 1..Len(r) THEN r[c] ELSE Undefined

\* row[c-1] = v on a JS array: a shorter array grows, leaving holes.
SetCell(r, c, v) ==
  [i \in 1..(IF c > Len(r) THEN c ELSE Len(r)) |->
     IF i = c THEN v ELSE IF i <= Len(r) THEN r[i] ELSE Hole]

\* item.options?.find(opt => opt.name === 'Size')
SizeOption(options) ==
  LET hits == {i \in 1..Len(options) : options[i].name = "Size"}
  IN  IF hits = {} THEN Undefined
      ELSE options[CHOOSE i \in hits : \A j \in hits : i <= j].value

\* `${item.title}${size} x${item.quantity}`
ItemText(item) ==
  LET size == SizeOption(item.options)
  IN  item.title \o (IF size = Undefined THEN "" ELSE " (" \o size \o ")")
        \o " x" \o ToString(item.quantity)

RECURSIVE JoinItems(_)
\* items.map(...).join(', ')
JoinItems(items) ==
  IF items = <<>> THEN ""
  ELSE IF Len(items) = 1 THEN ItemText(items[1])
  ELSE ItemText(items[1]) \o ", " \o JoinItems(Tail(items))

\* Faulty variant: the row is created with confirmed_at set to now.
OrderRowStamped(order, now) ==
  << order._id,
     order.orderSerial,
     Or(order.customer.name, ""),
     Or(order.shippingAddress.phone, Or(order.customer.phone, "")),
     ToString(IF "totalPrice" \in DOMAIN order THEN order.totalPrice.amount ELSE 0),
     Or(JoinItems(order.items), ""),
     PENDING,
     "",
     ISO[now],
     ISO[now] >>

\* The row addOrder builds for an order at instant now.
OrderRow(order, now) ==
  << order._id,
     order.orderSerial,
     Or(order.customer.name, ""),
     Or(order.shippingAddress.phone, Or(order.customer.phone, "")),
     ToString(IF "totalPrice" \in DOMAIN order THEN order.totalPrice.amount ELSE 0),
     Or(JoinItems(order.items), ""),
     PENDING,
     "",
     "",
     ISO[now] >>

RECURSIVE ScanBack(_, _, _)
\* Faulty variant: the scan runs from the last row and returns the last match.
ScanBack(rows, orderId, i) ==
  IF i < 1 THEN -1
  ELSE IF Cell(rows[i], 1) = orderId THEN i
  ELSE ScanBack(rows, orderId, i - 1)

\* Faulty variant: the loop returns the last match, wherever it starts.
ScanFromEnd(rows, orderId, i) == ScanBack(rows, orderId, Len(rows))

RECURSIVE ScanFrom(_, _, _)
\* The for loop of findRowByOrderId from index i (1-based here): the
\* position of the first entry whose first cell is orderId, else -1.
ScanFrom(rows, orderId, i) ==
  IF i > Len(rows) THEN -1
  ELSE IF Cell(rows[i], 1) = orderId THEN i
  ELSE ScanFrom(rows, orderId, i + 1)

\* Faulty variant: findRowByOrderId returns the last matching row.
FindRowResultLast(rows, orderId) == ScanBack(rows, orderId, Len(rows))

\* What findRowByOrderId returns when its read of A:A resolves with rows.
FindRowResult(rows, orderId) == ScanFrom(rows, orderId, 1)

\* What findRowByOrderId's catch block returns.
FindRowCatch == -1

\* Faulty variant: the not-found check is missing.
IsNotFoundNever(idx) == FALSE

\* rowIndex === -1
IsNotFound(idx) == idx = -1

\* Faulty variant: the stamp overwrites a confirmed_at that is already set.
StampConfirmedAgain(r, status, now) ==
  IF status = CONFIRMED THEN SetCell(r, ColConfirmedAt, ISO[now]) ELSE r

\* Faulty variant: the stamp is set whatever the new status is.
StampAnyStatus(r, status, now) ==
  IF ~Truthy(Cell(r, ColConfirmedAt))
  THEN SetCell(r, ColConfirmedAt, ISO[now])
  ELSE r

\* if (status === 'CONFIRMED' && !row[8]) row[8] = new Date().toISOString()
StampConfirmed(r, status, now) ==
  IF status = CONFIRMED /\ ~Truthy(Cell(r, ColConfirmedAt))
  THEN SetCell(r, ColConfirmedAt, ISO[now])
  ELSE r

\* Faulty variant: the override only fills an empty confirmed_at.
ApplyOverrideIfEmpty(r, additionalData) ==
  IF Truthy(additionalData.confirmedAt) /\ ~Truthy(Cell(r, ColConfirmedAt))
  THEN SetCell(r, ColConfirmedAt, additionalData.confirmedAt)
  ELSE r

\* if (additionalData.confirmedAt) row[8] = additionalData.confirmedAt
ApplyOverride(r, additionalData) ==
  IF Truthy(additionalData.confirmedAt)
  THEN SetCell(r, ColConfirmedAt, additionalData.confirmedAt)
  ELSE r

\* Faulty variant: the new status is not put in the row.
UpdatedRowKeepsStatus(r, status, additionalData, now) ==
  ApplyOverride(StampConfirmed(r, status, now), additionalData)

\* The row updateOrderStatus writes back, from the row it read.
UpdatedRow(r, status, additionalData, now) ==
  ApplyOverride(StampConfirmed(SetCell(r, ColStatus, status), status, now),
                additionalData)

\* Faulty variant: the phone is compared as typed, nothing is stripped.
StripNothing(chars) == chars

\* str.replace(/\D/g, '') on the characters of a string.
StripNonDigits(chars) == SelectSeq(chars, LAMBDA ch : ch \in DigitChars)

\* a.includes(b) on character sequences.
Includes(a, b) ==
  \E k \in 0..(Len(a) - Len(b)) : SubSeq(a, k + 1, k + Len(b)) = b

\* Position of a created_at cell in the order of JS string comparison.
StrRank(s) ==
  CASE s = "" -> 0
    [] s = OverrideTs -> 1
    [] \E n \in 1..Len(ISO) : ISO[n] = s -> 1 + (CHOOSE n \in 1..Len(ISO) : ISO[n] = s)
    [] OTHER -> 100

\* Faulty variant: the comparison is the other way round.
JsLess(a, b) ==
  /\ a # Undefined
  /\ b # Undefined
  /\ StrRank(a) < StrRank(b)

\* a > b in JS: false as soon as one side is undefined.
JsGreater(a, b) ==
  /\ a # Undefined
  /\ b # Undefined
  /\ StrRank(a) > StrRank(b)

\* The object getPendingOrderByPhone builds for a row.
PendingRecord(r) ==
  [ orderId |-> Cell(r, 1), orderNumber |-> Cell(r, 2),
    customerName |-> Cell(r, 3), phone |-> Cell(r, 4),
    totalAmount |-> Cell(r, 5), itemsSummary |-> Cell(r, 6),
    status |-> Cell(r, 7), lastCustomerMessage |-> Or(Cell(r, 8), ""),
    confirmedAt |-> Or(Cell(r, 9), ""), createdAt |-> Cell(r, 10) ]

\* getPendingOrderByPhone's null.
Null == [orderId |-> "<null>"]

\* Faulty variant: only rowPhone.includes(cleanPhone) is tested.
PhoneMatchesOneWay(r, cleanPhone) ==
  Includes(StripNonDigits(PhoneChars(Or(Cell(r, ColPhone), ""))), cleanPhone)

\* The phone test of line 279.
PhoneMatches(r, cleanPhone) ==
  LET rowPhone == StripNonDigits(PhoneChars(Or(Cell(r, ColPhone), "")))
  IN  Includes(rowPhone, cleanPhone) \/ Includes(cleanPhone, rowPhone)

RECURSIVE PendingScan(_, _, _, _, _)
\* The loop of getPendingOrderByPhone from index i down to 1.
PendingScan(rows, cleanPhone, i, latestOrder, latestDate) ==
  IF i < 1 THEN latestOrder
  ELSE
    LET r == rows[i]
        createdAt == Cell(r, ColCreatedAt)
        take == /\ PhoneMatches(r, cleanPhone)
                /\ Cell(r, ColStatus) = PENDING
                /\ (~Truthy(latestDate) \/ JsGreater(createdAt, latestDate))
    IN  IF take
        THEN PendingScan(rows, cleanPhone, i - 1, PendingRecord(r), createdAt)
        ELSE PendingScan(rows, cleanPhone, i - 1, latestOrder, latestDate)

\* What getPendingOrderByPhone returns when its read of A2:J resolves.
PendingResult(rows, phone) ==
  PendingScan(rows, StripNonDigits(PhoneChars(phone)), Len(rows), Null, Undefined)

(* ------------------------------------------------------------------ *)
(* State                                                                *)
(* ------------------------------------------------------------------ *)

VARIABLES
  initialized,    \* this.initialized
  sheets,         \* this.sheets: "null" or "client"
  sheetExists,    \* the spreadsheet has a tab named this.sheetName
  grid,           \* the rows of that tab, each a tuple of NumCols cells
  clock,          \* the instant new Date() returns
  pc,             \* per caller: the await its call is suspended at, or "idle"
  op,             \* per caller: the method of its current or last call
  arg,            \* per caller: the arguments of its current call
  rowIndex,       \* per caller: the local rowIndex
  row,            \* per caller: the local row
  ret,            \* per caller: what its last call returned
  log,            \* per caller: the console lines of its current or last call
  nreads,         \* per caller: store reads issued by its current or last call
  nwrites,        \* per caller: store writes issued by its current or last call
  ncalls,         \* calls made so far, all callers together
  added,          \* history: order ids for which addOrder returned true
  everConfirmed,  \* history: rows a transition wrote the status CONFIRMED to
  everOverridden, \* history: rows a transition wrote an override value to
  lastStatus,     \* history: per order_id, the status of the latest
                  \* updateOrderStatus that returned true ("" when none)
  lastInit,       \* history: the latest initialize() call: "never" made,
                  \* "running", or what it returned ("true", "false")
  lastConfirm     \* history: [id, n, at] when the n calls that completed
                  \* last were successful updateOrderStatus(id, 'CONFIRMED')
                  \* without override, the last leaving confirmed_at = at;
                  \* NoStreak otherwise

store == << sheetExists, grid >>
locals == << pc, op, arg, rowIndex, row, ret, log, nreads, nwrites >>
history ==
  << added, everConfirmed, everOverridden, lastStatus, lastInit, lastConfirm >>
vars == << initialized, sheets, store, clock, locals, ncalls, history >>

\* The callers that share the exported singleton: the bootstrap, the
\* order-creation workflow and the conversational workflow, which may be
\* handling two conversations at once.
Procs == {"boot", "orders", "chat", "chat2"}

NoStreak == [id |-> "", n |-> 0, at |-> ""]

NoArg == <<>>
NoRow == <<>>
NoIndex == 0

Init ==
  /\ initialized = FALSE
  /\ sheets = "null"
  /\ sheetExists \in BOOLEAN
  /\ grid \in (IF sheetExists THEN {<<>>, << Headers >>} ELSE {<<>>})
  /\ clock = 1
  /\ pc = [p \in Procs |-> "idle"]
  /\ op = [p \in Procs |-> "none"]
  /\ arg = [p \in Procs |-> NoArg]
  /\ rowIndex = [p \in Procs |-> NoIndex]
  /\ row = [p \in Procs |-> NoRow]
  /\ ret = [p \in Procs |-> "none"]
  /\ log = [p \in Procs |-> <<>>]
  /\ nreads = [p \in Procs |-> 0]
  /\ nwrites = [p \in Procs |-> 0]
  /\ ncalls = 0
  /\ added = {}
  /\ everConfirmed = {}
  /\ everOverridden = {}
  /\ lastStatus = [id \in OrderIdArgs |-> ""]
  /\ lastInit = "never"
  /\ lastConfirm = NoStreak

(* ------------------------------------------------------------------ *)
(* Control flow helpers                                                 *)
(* ------------------------------------------------------------------ *)

\* A method is entered: its synchronous prefix ran and it awaits at `at`.
Enter(p, name, a, at, r, reads, writes) ==
  /\ pc' = [pc EXCEPT ![p] = at]
  /\ op' = [op EXCEPT ![p] = name]
  /\ arg' = [arg EXCEPT ![p] = a]
  /\ rowIndex' = [rowIndex EXCEPT ![p] = NoIndex]
  /\ row' = [row EXCEPT ![p] = r]
  /\ ret' = [ret EXCEPT ![p] = "none"]
  /\ log' = [log EXCEPT ![p] = <<>>]
  /\ nreads' = [nreads EXCEPT ![p] = reads]
  /\ nwrites' = [nwrites EXCEPT ![p] = writes]
  /\ ncalls' = ncalls + 1

\* The call moves on to its next await.
Goto(p, at, idx, r, lines, reads, writes) ==
  /\ pc' = [pc EXCEPT ![p] = at]
  /\ rowIndex' = [rowIndex EXCEPT ![p] = idx]
  /\ row' = [row EXCEPT ![p] = r]
  /\ log' = [log EXCEPT ![p] = log[p] \o lines]
  /\ nreads' = [nreads EXCEPT ![p] = nreads[p] + reads]
  /\ nwrites' = [nwrites EXCEPT ![p] = nwrites[p] + writes]
  /\ UNCHANGED << op, arg, ret, ncalls >>

\* The call returns value, having logged lines.
Return(p, value, lines) ==
  /\ pc' = [pc EXCEPT ![p] = "done"]
  /\ row' = [row EXCEPT ![p] = NoRow]
  /\ ret' = [ret EXCEPT ![p] = value]
  /\ log' = [log EXCEPT ![p] = log[p] \o lines]
  /\ UNCHANGED << op, arg, rowIndex, nreads, nwrites, ncalls >>

\* A call that returns from its synchronous prefix, before any await.
Skip(p, name, a, value, lines) ==
  /\ pc' = [pc EXCEPT ![p] = "done"]
  /\ op' = [op EXCEPT ![p] = name]
  /\ arg' = [arg EXCEPT ![p] = a]
  /\ rowIndex' = [rowIndex EXCEPT ![p] = NoIndex]
  /\ row' = [row EXCEPT ![p] = NoRow]
  /\ ret' = [ret EXCEPT ![p] = value]
  /\ log' = [log EXCEPT ![p] = lines]
  /\ nreads' = [nreads EXCEPT ![p] = 0]
  /\ nwrites' = [nwrites EXCEPT ![p] = 0]
  /\ ncalls' = ncalls + 1

\* The caller has taken the result of its call and is ready for the next.
Resume(p) ==
  /\ pc[p] = "done"
  /\ pc' = [pc EXCEPT ![p] = "idle"]
  /\ op' = [op EXCEPT ![p] = "none"]
  /\ ret' = [ret EXCEPT ![p] = "none"]
  /\ log' = [log EXCEPT ![p] = <<>>]
  /\ nreads' = [nreads EXCEPT ![p] = 0]
  /\ nwrites' = [nwrites EXCEPT ![p] = 0]
  /\ arg' = [arg EXCEPT ![p] = NoArg]
  /\ rowIndex' = [rowIndex EXCEPT ![p] = NoIndex]
  /\ UNCHANGED << initialized, sheets, store, clock, row, ncalls, history >>

\* The instant advances.
Tick ==
  /\ clock < MaxClock
  /\ clock' = clock + 1
  /\ UNCHANGED << initialized, sheets, store, locals, ncalls, history >>

(* ------------------------------------------------------------------ *)
(* initialize and ensureHeaders                                         *)
(* ------------------------------------------------------------------ *)

\* initialize() is called: it awaits auth.getClient().
CallInitialize(p) ==
  /\ pc[p] = "idle"
  /\ ncalls < MaxCalls
  /\ Enter(p, "initialize", NoArg, "init_auth", NoRow, 0, 0)
  /\ lastInit' = "running"
  /\ UNCHANGED << initialized, sheets, store, clock, added, everConfirmed,
                  everOverridden, lastStatus, lastConfirm >>

\* Faulty variant: the catch block of initialize leaves the flag as it is.
InitializeCatchKeepsFlag == initialized

\* this.initialized = false in the catch block of initialize.
InitializeCatchFlag == FALSE

\* What initialize returns from its catch block.
InitializeCatch == "false"

\* getClient() settles.  On success the handle and the flag are set and
\* ensureHeaders runs up to its spreadsheets.get; on failure the catch
\* block clears the flag and initialize returns false.
InitAuth(p) ==
  /\ pc[p] = "init_auth"
  /\ \/ /\ sheets' = "client"
        /\ initialized' = TRUE
        /\ Goto(p, "eh_get", NoIndex, NoRow, << "initialized" >>, 1, 0)
        /\ lastConfirm' = lastConfirm
     \/ /\ initialized' = InitializeCatchFlag
        /\ sheets' = sheets
        /\ Return(p, InitializeCatch, << "init_error" >>)
        /\ lastConfirm' = NoStreak
  /\ UNCHANGED << store, clock, added, everConfirmed, everOverridden, lastStatus >>
  /\ lastInit' = IF pc'[p] = "done" THEN ret'[p] ELSE lastInit

\* What initialize returns once ensureHeaders is over, however it ended.
InitializeResult == "true"

\* spreadsheets.get settles: a missing tab is created, else row 1 is read;
\* a rejection is caught inside ensureHeaders.
EhGet(p) ==
  /\ pc[p] = "eh_get"
  /\ \/ /\ ~sheetExists
        /\ Goto(p, "eh_create", NoIndex, NoRow, <<>>, 0, 1)
        /\ lastConfirm' = lastConfirm
     \/ /\ sheetExists
        /\ Goto(p, "eh_read", NoIndex, NoRow, <<>>, 1, 0)
        /\ lastConfirm' = lastConfirm
     \/ /\ Return(p, InitializeResult, << "headers_error" >>)
        /\ lastConfirm' = NoStreak
  /\ UNCHANGED << initialized, sheets, store, clock, added, everConfirmed,
                  everOverridden, lastStatus >>
  /\ lastInit' = IF pc'[p] = "done" THEN ret'[p] ELSE lastInit

\* batchUpdate(addSheet) settles: the tab exists afterwards and row 1 is
\* read; it is rejected when the tab exists by now.
EhCreate(p) ==
  /\ pc[p] = "eh_create"
  /\ \/ /\ ~sheetExists
        /\ sheetExists' = TRUE
        /\ grid' = <<>>
        /\ Goto(p, "eh_read", NoIndex, NoRow, << "created_sheet" >>, 1, 0)
        /\ lastConfirm' = lastConfirm
     \/ /\ UNCHANGED store
        /\ Return(p, InitializeResult, << "headers_error" >>)
        /\ lastConfirm' = NoStreak
  /\ UNCHANGED << initialized, sheets, clock, added, everConfirmed,
                  everOverridden, lastStatus >>
  /\ lastInit' = IF pc'[p] = "done" THEN ret'[p] ELSE lastInit

\* headerResponse.data.values?.[0] || []
ExistingHeaders(g) ==
  IF ValuesGetRow(g, 1) = <<>> THEN <<>> ELSE ValuesGetRow(g, 1)[1]

\* existingHeaders.length === 0
HeadersMissing(existing) == Len(existing) = 0

\* values.get of A1:J1 settles: the headers are written when row 1 is empty.
EhRead(p) ==
  /\ pc[p] = "eh_read"
  /\ \/ /\ sheetExists
        /\ IF HeadersMissing(ExistingHeaders(grid))
           THEN /\ Goto(p, "eh_write", NoIndex, NoRow, <<>>, 0, 1)
                /\ lastConfirm' = lastConfirm
           ELSE /\ Return(p, InitializeResult, <<>>)
                /\ lastConfirm' = NoStreak
     \/ /\ Return(p, InitializeResult, << "headers_error" >>)
        /\ lastConfirm' = NoStreak
  /\ UNCHANGED << initialized, sheets, store, clock, added, everConfirmed,
                  everOverridden, lastStatus >>
  /\ lastInit' = IF pc'[p] = "done" THEN ret'[p] ELSE lastInit

\* values.update of A1:J1 settles.
EhWrite(p) ==
  /\ pc[p] = "eh_write"
  /\ \/ /\ sheetExists
        /\ grid' = ValuesUpdateRow(grid, 1, Headers)
        /\ Return(p, InitializeResult, << "headers_added" >>)
     \/ /\ grid' = grid
        /\ Return(p, InitializeResult, << "headers_error" >>)
  /\ lastConfirm' = NoStreak
  /\ UNCHANGED << initialized, sheets, sheetExists, clock, added,
                  everConfirmed, everOverridden, lastStatus >>
  /\ lastInit' = IF pc'[p] = "done" THEN ret'[p] ELSE lastInit

(* ------------------------------------------------------------------ *)
(* addOrder                                                             *)
(* ------------------------------------------------------------------ *)

\* What addOrder returns when the service is not initialized.
AddOrderSkipped == "false"

\* What addOrder's catch block returns.
AddOrderCatch == "false"

\* addOrder(order) is called: it returns at once when not initialized,
\* else it builds the row and awaits values.append.
CallAddOrder(p, order) ==
  /\ pc[p] = "idle"
  /\ ncalls < MaxCalls
  /\ IF ~initialized
     THEN /\ Skip(p, "addOrder", [order |-> order], AddOrderSkipped, << "skip" >>)
          /\ lastConfirm' = NoStreak
     ELSE /\ Enter(p, "addOrder", [order |-> order], "add_append",
                   OrderRow(order, clock), 0, 1)
          /\ lastConfirm' = lastConfirm
  /\ UNCHANGED << initialized, sheets, store, clock, added, everConfirmed,
                  everOverridden, lastStatus, lastInit >>

\* values.append settles.
AddAppend(p) ==
  /\ pc[p] = "add_append"
  /\ \/ /\ sheetExists
        /\ grid' = ValuesAppend(grid, row[p])
        /\ added' = added \cup {arg[p].order._id}
        /\ Return(p, "true", << "added" >>)
     \/ /\ UNCHANGED << grid, added >>
        /\ Return(p, AddOrderCatch, << "error" >>)
  /\ lastConfirm' = NoStreak
  /\ UNCHANGED << initialized, sheets, sheetExists, clock, everConfirmed,
                  everOverridden, lastStatus, lastInit >>

(* ------------------------------------------------------------------ *)
(* findRowByOrderId, as awaited by its callers                          *)
(* ------------------------------------------------------------------ *)

\* The outcomes of findRowByOrderId(orderId) on grid g: its read of A:A
\* resolves and the scan decides, or the read is rejected and the catch
\* block decides.  Each outcome is the index returned and the lines logged.
FindRowOutcomes(g, exists, orderId) ==
  (IF exists
   THEN {[index |-> FindRowResult(ValuesGetColumnA(g), orderId), lines |-> <<>>]}
   ELSE {})
  \cup {[index |-> FindRowCatch, lines |-> << "find_error" >>]}

(* ------------------------------------------------------------------ *)
(* updateOrderStatus                                                    *)
(* ------------------------------------------------------------------ *)

\* What updateOrderStatus returns when the service is not initialized.
UpdateStatusSkipped == "false"

\* What updateOrderStatus returns when findRowByOrderId gave -1.
UpdateStatusNotFound == "false"

\* Faulty variant: updateOrderStatus has no catch block; the fault propagates.
UpdateStatusRethrows == "threw"

\* What updateOrderStatus's catch block returns.
UpdateStatusCatch == "false"

\* updateOrderStatus(orderId, status, additionalData) is called.
CallUpdateOrderStatus(p, orderId, status, additionalData) ==
  /\ pc[p] = "idle"
  /\ ncalls < MaxCalls
  /\ IF ~initialized
     THEN /\ Skip(p, "updateOrderStatus",
                  [orderId |-> orderId, status |-> status,
                   additionalData |-> additionalData],
                  UpdateStatusSkipped, << "skip" >>)
          /\ lastConfirm' = NoStreak
     ELSE /\ Enter(p, "updateOrderStatus",
                   [orderId |-> orderId, status |-> status,
                    additionalData |-> additionalData],
                   "upd_find", NoRow, 1, 0)
          /\ lastConfirm' = lastConfirm
  /\ UNCHANGED << initialized, sheets, store, clock, added, everConfirmed,
                  everOverridden, lastStatus, lastInit >>

\* findRowByOrderId settles: not found returns, found reads the row.
UpdFind(p) ==
  /\ pc[p] = "upd_find"
  /\ \E out \in FindRowOutcomes(grid, sheetExists, arg[p].orderId) :
       IF IsNotFound(out.index)
       THEN /\ Return(p, UpdateStatusNotFound, out.lines \o << "not_found" >>)
            /\ lastConfirm' = NoStreak
       ELSE /\ Goto(p, "upd_get", out.index, NoRow, out.lines, 1, 0)
            /\ lastConfirm' = lastConfirm
  /\ UNCHANGED << initialized, sheets, store, clock, added, everConfirmed,
                  everOverridden, lastStatus, lastInit >>

\* values.get of the row settles: the row is modified and written back.
\* currentRow.data.values[0] throws when the row came back empty.
UpdGet(p) ==
  /\ pc[p] = "upd_get"
  /\ \/ /\ sheetExists
        /\ ValuesGetRow(grid, rowIndex[p]) # <<>>
        /\ Goto(p, "upd_put", rowIndex[p],
                UpdatedRow(ValuesGetRow(grid, rowIndex[p])[1], arg[p].status,
                           arg[p].additionalData, clock),
                <<>>, 0, 1)
        /\ lastConfirm' = lastConfirm
     \/ /\ Return(p, UpdateStatusCatch, << "error" >>)
        /\ lastConfirm' = NoStreak
  /\ UNCHANGED << initialized, sheets, store, clock, added, everConfirmed,
                  everOverridden, lastStatus, lastInit >>

\* values.update of the row settles.
UpdPut(p) ==
  /\ pc[p] = "upd_put"
  /\ \/ /\ sheetExists
        /\ grid' = ValuesUpdateRow(grid, rowIndex[p], row[p])
        /\ everConfirmed' =
             IF Cell(row[p], ColStatus) = CONFIRMED
             THEN everConfirmed \cup {rowIndex[p]} ELSE everConfirmed
        /\ everOverridden' =
             IF Truthy(arg[p].additionalData.confirmedAt)
             THEN everOverridden \cup {rowIndex[p]} ELSE everOverridden
        /\ lastStatus' = [lastStatus EXCEPT ![arg[p].orderId] = arg[p].status]
        /\ lastConfirm' =
             IF arg[p].status = CONFIRMED
                /\ arg[p].additionalData.confirmedAt = Undefined
             THEN [id |-> arg[p].orderId,
                   n |-> IF lastConfirm.id = arg[p].orderId
                         THEN lastConfirm.n + 1 ELSE 1,
                   at |-> grid'[rowIndex[p]][ColConfirmedAt]]
             ELSE NoStreak
        /\ Return(p, "true", << "updated" >>)
     \/ /\ UNCHANGED << grid, everConfirmed, everOverridden, lastStatus >>
        /\ lastConfirm' = NoStreak
        /\ Return(p, UpdateStatusCatch, << "error" >>)
  /\ UNCHANGED << initialized, sheets, sheetExists, clock, added, lastInit >>

(* ------------------------------------------------------------------ *)
(* updateLastMessage                                                    *)
(* ------------------------------------------------------------------ *)

\* What updateLastMessage returns when the service is not initialized.
UpdateMessageSkipped == "false"

\* What updateLastMessage returns when findRowByOrderId gave -1.
UpdateMessageNotFound == "false"

\* What updateLastMessage's catch block returns.
UpdateMessageCatch == "false"

\* updateLastMessage(orderId, message) is called.
CallUpdateLastMessage(p, orderId, message) ==
  /\ pc[p] = "idle"
  /\ ncalls < MaxCalls
  /\ IF ~initialized
     THEN Skip(p, "updateLastMessage",
               [orderId |-> orderId, message |-> message],
               UpdateMessageSkipped, << "skip" >>)
     ELSE Enter(p, "updateLastMessage",
                [orderId |-> orderId, message |-> message],
                "msg_find", NoRow, 1, 0)
  /\ lastConfirm' = IF ~initialized THEN NoStreak ELSE lastConfirm
  /\ UNCHANGED << initialized, sheets, store, clock, added, everConfirmed,
                  everOverridden, lastStatus, lastInit >>

\* findRowByOrderId settles: not found returns, found writes the cell.
MsgFind(p) ==
  /\ pc[p] = "msg_find"
  /\ \E out \in FindRowOutcomes(grid, sheetExists, arg[p].orderId) :
       IF IsNotFound(out.index)
       THEN /\ Return(p, UpdateMessageNotFound, out.lines \o << "not_found" >>)
            /\ lastConfirm' = NoStreak
       ELSE /\ Goto(p, "msg_put", out.index, NoRow, out.lines, 0, 1)
            /\ lastConfirm' = lastConfirm
  /\ UNCHANGED << initialized, sheets, store, clock, added, everConfirmed,
                  everOverridden, lastStatus, lastInit >>

\* values.update of H<rowIndex> settles.
MsgPut(p) ==
  /\ pc[p] = "msg_put"
  /\ \/ /\ sheetExists
        /\ grid' = ValuesUpdateCell(grid, rowIndex[p], ColMessage, arg[p].message)
        /\ Return(p, "true", << "updated" >>)
     \/ /\ grid' = grid
        /\ Return(p, UpdateMessageCatch, << "error" >>)
  /\ lastConfirm' = NoStreak
  /\ UNCHANGED << initialized, sheets, sheetExists, clock, added,
                  everConfirmed, everOverridden, lastStatus, lastInit >>

(* ------------------------------------------------------------------ *)
(* getPendingOrderByPhone                                               *)
(* ------------------------------------------------------------------ *)

\* What getPendingOrderByPhone returns when the service is not initialized.
PendingSkipped == Null

\* What getPendingOrderByPhone's catch block returns.
PendingCatch == Null

\* getPendingOrderByPhone(phone) is called.
CallGetPendingOrderByPhone(p, phone) ==
  /\ pc[p] = "idle"
  /\ ncalls < MaxCalls
  /\ IF ~initialized
     THEN Skip(p, "getPendingOrderByPhone", [phone |-> phone],
               PendingSkipped, << "skip" >>)
     ELSE Enter(p, "getPendingOrderByPhone", [phone |-> phone], "pend_get",
                NoRow, 1, 0)
  /\ lastConfirm' = IF ~initialized THEN NoStreak ELSE lastConfirm
  /\ UNCHANGED << initialized, sheets, store, clock, added, everConfirmed,
                  everOverridden, lastStatus, lastInit >>

\* values.get of A2:J settles.
PendGet(p) ==
  /\ pc[p] = "pend_get"
  /\ \/ /\ sheetExists
        /\ LET found == PendingResult(ValuesGetData(grid), arg[p].phone)
           IN  Return(p, found, IF found = Null THEN <<>> ELSE << "found" >>)
     \/ Return(p, PendingCatch, << "error" >>)
  /\ lastConfirm' = NoStreak
  /\ UNCHANGED << initialized, sheets, store, clock, added, everConfirmed,
                  everOverridden, lastStatus, lastInit >>

(* ------------------------------------------------------------------ *)
(* findRowByOrderId called on its own                                   *)
(* ------------------------------------------------------------------ *)

\* findRowByOrderId(orderId) is called.  It has no initialized guard: with
\* this.sheets still null the property access throws inside the try.
CallFindRowByOrderId(p, orderId) ==
  /\ pc[p] = "idle"
  /\ ncalls < MaxCalls
  /\ IF sheets = "null"
     THEN Skip(p, "findRowByOrderId", [orderId |-> orderId], FindRowCatch,
               << "find_error" >>)
     ELSE Enter(p, "findRowByOrderId", [orderId |-> orderId], "find_get",
                NoRow, 1, 0)
  /\ lastConfirm' = IF sheets = "null" THEN NoStreak ELSE lastConfirm
  /\ UNCHANGED << initialized, sheets, store, clock, added, everConfirmed,
                  everOverridden, lastStatus, lastInit >>

\* values.get of A:A settles.
FindGet(p) ==
  /\ pc[p] = "find_get"
  /\ \E out \in FindRowOutcomes(grid, sheetExists, arg[p].orderId) :
       Return(p, out.index, out.lines)
  /\ lastConfirm' = NoStreak
  /\ UNCHANGED << initialized, sheets, store, clock, added, everConfirmed,
                  everOverridden, lastStatus, lastInit >>

(* ------------------------------------------------------------------ *)
(* Specifications                                                       *)
(* ------------------------------------------------------------------ *)

\* A caller starts one of the calls its workflow makes.
Call(p) ==
  \/ /\ p = "boot"
     /\ CallInitialize(p)
  \/ /\ p = "orders"
     /\ \E order \in Orders : CallAddOrder(p, order)
  \/ /\ p = "chat"
     /\ \E orderId \in OrderIdArgs, status \in StatusArgs,
          additionalData \in AdditionalDataArgs :
            CallUpdateOrderStatus(p, orderId, status, additionalData)
  \/ /\ p = "chat"
     /\ \E orderId \in OrderIdArgs, message \in MessageArgs :
            CallUpdateLastMessage(p, orderId, message)
  \/ /\ p = "chat"
     /\ \E phone \in PhoneArgs : CallGetPendingOrderByPhone(p, phone)
  \/ /\ p = "chat"
     /\ \E orderId \in OrderIdArgs : CallFindRowByOrderId(p, orderId)

\* An awaited store call of a caller settles.
Step(p) ==
  \/ InitAuth(p)
  \/ EhGet(p)
  \/ EhCreate(p)
  \/ EhRead(p)
  \/ EhWrite(p)
  \/ AddAppend(p)
  \/ UpdFind(p)
  \/ UpdGet(p)
  \/ UpdPut(p)
  \/ MsgFind(p)
  \/ MsgPut(p)
  \/ PendGet(p)
  \/ FindGet(p)
  \/ Resume(p)

\* Calls of the callers interleave at their awaits.
Next ==
  \/ Tick
  \/ \E p \in Procs : Call(p)
  \/ \E p \in Procs : Step(p)

Spec == Init /\ [][Next]_vars

\* No call is in flight.
AllIdle == \A p \in Procs : pc[p] = "idle"

\* Calls run one after the other: each is awaited before the next starts.
NextSeq ==
  \/ Tick
  \/ \E p \in Procs : AllIdle /\ Call(p)
  \/ \E p \in Procs : Step(p)

SpecSeq == Init /\ [][NextSeq]_vars

(* ------------------------------------------------------------------ *)
(* A ledger in use                                                      *)
(* ------------------------------------------------------------------ *)

\* The row of an order that addOrder appended at instant now and that
\* updateOrderStatus(id, status) has since moved to status, as the store
\* holds it.
LedgerRow(order, now, status) ==
  LET fresh == ValuesAppend(<<>>, OrderRow(order, now))
      moved == ValuesUpdateRow(fresh, 1,
                 UpdatedRow(ValuesGetRow(fresh, 1)[1], status,
                            [confirmedAt |-> Undefined], now))
  IN  SubSeq(IF status = PENDING THEN fresh[1] ELSE moved[1], 1, NumCols)

\* The rows a ledger in use is made of.
LedgerRows ==
  {LedgerRow(o, n, s) : o \in LedgerOrders, n \in 1..MaxClock,
                        s \in {PENDING, CONFIRMED}}

\* The tabs a service in use finds: the header row, then up to MaxRows
\* order records in any order (addOrder takes its timestamp before its
\* append is awaited, so store order need not be timestamp order).
Ledgers ==
  {<< Headers >> \o rows :
     rows \in UNION {[1..k -> LedgerRows] : k \in 0..MaxRows}}

\* The state once initialize() has returned true on a tab whose rows are g
\* and no call is in flight.
Serving(g) ==
  /\ initialized = TRUE
  /\ sheets = "client"
  /\ sheetExists = TRUE
  /\ grid = g
  /\ clock = 1
  /\ pc = [p \in Procs |-> "idle"]
  /\ op = [p \in Procs |-> "none"]
  /\ arg = [p \in Procs |-> NoArg]
  /\ rowIndex = [p \in Procs |-> NoIndex]
  /\ row = [p \in Procs |-> NoRow]
  /\ ret = [p \in Procs |-> "none"]
  /\ log = [p \in Procs |-> <<>>]
  /\ nreads = [p \in Procs |-> 0]
  /\ nwrites = [p \in Procs |-> 0]
  /\ ncalls = 0
  /\ added = {g[i][ColOrderId] : i \in 2..Len(g)}
  /\ everConfirmed = {i \in 2..Len(g) : g[i][ColStatus] = CONFIRMED}
  /\ everOverridden = {}
  /\ lastStatus = [id \in OrderIdArgs |-> ""]
  /\ lastInit = "true"
  /\ lastConfirm = NoStreak

\* A lookup by phone on a ledger in use.
InitLookup == \E g \in Ledgers : Serving(g)

\* One lookup is made and settles.
NextLookup ==
  \/ \E phone \in LookupPhones : CallGetPendingOrderByPhone("chat", phone)
  \/ PendGet("chat")

SpecLookup == InitLookup /\ [][NextLookup]_vars

(* ------------------------------------------------------------------ *)
(* Two conversations updating a ledger in use                           *)
(* ------------------------------------------------------------------ *)

\* The callers of the conversational workflow.
Chats == {"chat", "chat2"}

\* The ledgers the conversations start from: the pending record of one
\* order, appended once or more than once.
ChatLedgers ==
  {g \in Ledgers :
     /\ Len(g) >= 2
     /\ \A i \in 2..Len(g) : g[i] = LedgerRow(Order1, 1, PENDING)}

InitChats == \E g \in ChatLedgers : Serving(g)

\* The conversations make status transitions for the order of the ledger
\* and message updates for it and for an order the ledger does not hold;
\* their store calls settle in any order.
NextChats ==
  \/ Tick
  \/ \E p \in Chats, status \in StatusArgs :
          CallUpdateOrderStatus(p, Order1._id, status, [confirmedAt |-> Undefined])
  \/ \E p \in Chats, order \in Orders, message \in MessageArgs :
          CallUpdateLastMessage(p, order._id, message)
  \/ \E p \in Chats : UpdFind(p)
  \/ \E p \in Chats : UpdGet(p)
  \/ \E p \in Chats : UpdPut(p)
  \/ \E p \in Chats : MsgFind(p)
  \/ \E p \in Chats : MsgPut(p)
  \/ \E p \in Chats : Resume(p)

SpecChats == InitChats /\ [][NextChats]_vars

(* ------------------------------------------------------------------ *)
(* Vocabulary of the properties                                         *)
(* ------------------------------------------------------------------ *)

\* The ids the upstream platform assigns to orders.
UpstreamIds == {o._id : o \in Orders}

\* The row numbers of g whose order_id cell is id.
RowsWithId(g, id) == {i \in 1..Len(g) : g[i][ColOrderId] = id}

\* The row numbers of g that hold an order record.
DataRows(g) == {i \in 1..Len(g) : g[i][ColOrderId] \in UpstreamIds}

\* The least element of a non-empty set of row numbers.
MinOf(S) == CHOOSE i \in S : \A j \in S : i <= j

\* The lines of a caller's log, as a set.
Lines(p) == {log[p][i] : i \in 1..Len(log[p])}

\* The methods that report failure with false.
BooleanOps == {"addOrder", "updateOrderStatus", "updateLastMessage"}

\* The methods guarded by this.initialized.
GuardedOps == BooleanOps \cup {"getPendingOrderByPhone"}

\* Whether value is the failure value of method name.
IsFailureValue(name, value) ==
  IF name \in BooleanOps THEN value = "false" ELSE value = Null

\* A call of caller p returned in this step.
Returns(p) == pc[p] # "done" /\ pc'[p] = "done"

(* ------------------------------------------------------------------ *)
(* C1                                                                   *)
(* ------------------------------------------------------------------ *)

\* C1: every order for which addOrder returned true is found by the scan
\* of findRowByOrderId in every later state of the ledger: the scan of
\* column A gives a row number, not -1, and that row holds the order's id.
C1_AppendedOrderIsFound ==
  \A id \in added :
    LET idx == FindRowResult(ValuesGetColumnA(grid), id)
    IN  /\ idx # -1
        /\ idx \in 1..Len(grid)
        /\ grid[idx][ColOrderId] = id

(* ------------------------------------------------------------------ *)
(* C8                                                                   *)
(* ------------------------------------------------------------------ *)

\* C8: in every reachable state no order record occupies row 1, and a
\* sheet that holds an order record has the schema's header row in row 1
\* (an append only ever lands below the header).
C8_HeaderBeforeData ==
  DataRows(grid) # {} =>
    /\ 1 \notin DataRows(grid)
    /\ \A c \in 1..NumCols : c \notin {ColStatus, ColMessage, ColConfirmedAt}
                               => grid[1][c] = Headers[c]

(* ------------------------------------------------------------------ *)
(* C6                                                                   *)
(* ------------------------------------------------------------------ *)

\* C6: for updateOrderStatus and updateLastMessage not-found is an outcome
\* of its own: a call that met a store failure does not return the value
\* the not-found path returns, and a failed scan of column A is not
\* reported as not-found.
C6_NotFoundDistinctFromFailure ==
  \A p \in Procs :
    (pc[p] = "done" /\ op[p] \in {"updateOrderStatus", "updateLastMessage"}) =>
      /\ "error" \in Lines(p) =>
           ret[p] # (IF op[p] = "updateOrderStatus"
                     THEN UpdateStatusNotFound ELSE UpdateMessageNotFound)
      /\ "find_error" \in Lines(p) => "not_found" \notin Lines(p)

(* ------------------------------------------------------------------ *)
(* C2                                                                   *)
(* ------------------------------------------------------------------ *)

\* C2: with calls made one after the other, a successful
\* updateOrderStatus(id, 'CONFIRMED') without override leaves confirmed_at
\* non-empty, and when the call completed just before it was the same
\* successful call, confirmed_at afterwards is what that first call left;
\* a successful transition to another status without override leaves
\* confirmed_at of the row as it was.
C2_ConfirmedAtSetOnce ==
  [][\A p \in Procs :
       (/\ pc[p] = "upd_put"
        /\ Returns(p)
        /\ ret'[p] = "true"
        /\ arg[p].additionalData.confirmedAt = Undefined) =>
         LET r == rowIndex[p]
         IN  IF arg[p].status = CONFIRMED
             THEN /\ grid'[r][ColConfirmedAt] # ""
                  /\ lastConfirm.id = arg[p].orderId =>
                       grid'[r][ColConfirmedAt] = lastConfirm.at
             ELSE grid'[r][ColConfirmedAt] = grid[r][ColConfirmedAt]]_vars

\* C2 witness: the second of two CONFIRMED transitions in a row has
\* returned, at a later instant than the one the first stamped.
C2_Witness ==
  \E p \in Procs :
    /\ pc[p] = "done"
    /\ op[p] = "updateOrderStatus"
    /\ ret[p] = "true"
    /\ lastConfirm.n = 2
    /\ lastConfirm.id \in UpstreamIds
    /\ lastConfirm.at = ISO[1]
    /\ clock > 1

(* ------------------------------------------------------------------ *)
(* C3                                                                   *)
(* ------------------------------------------------------------------ *)

\* C3: whenever updateOrderStatus writes a row back for a call whose
\* additionalData carries a (non-empty) confirmedAt, the confirmed_at cell
\* of the written row is that value, whatever the new status and whatever
\* confirmed_at held before.
C3_OverrideWins ==
  [][\A p \in Procs :
       (/\ pc[p] = "upd_put"
        /\ Returns(p)
        /\ ret'[p] = "true"
        /\ Truthy(arg[p].additionalData.confirmedAt)) =>
         grid'[rowIndex[p]][ColConfirmedAt] = arg[p].additionalData.confirmedAt]_vars

\* C3 witness: a transition to CANCELLED with an override has returned on
\* a record that an earlier CONFIRMED transition had stamped.
C3_Witness ==
  \E p \in Procs :
    /\ pc[p] = "done"
    /\ op[p] = "updateOrderStatus"
    /\ ret[p] = "true"
    /\ arg[p].status = CANCELLED
    /\ arg[p].additionalData.confirmedAt = OverrideTs
    /\ rowIndex[p] \in DataRows(grid) \cap everConfirmed
    /\ grid[rowIndex[p]][ColStatus] = CANCELLED
    /\ grid[rowIndex[p]][ColConfirmedAt] = OverrideTs

(* ------------------------------------------------------------------ *)
(* C4                                                                   *)
(* ------------------------------------------------------------------ *)

\* C4 as stated: the confirmed_at of an order record is empty unless a
\* transition has written the status CONFIRMED to that record before.
C4_ConfirmedAtOnlyAfterConfirmed ==
  \A r \in DataRows(grid) :
    grid[r][ColConfirmedAt] # "" => r \in everConfirmed

\* C4 as amended: the confirmed_at of an order record is empty unless a
\* transition has written the status CONFIRMED to that record before, or a
\* transition has written an explicit override value to it.
C4_ConfirmedAtOnlyAfterConfirmedOrOverride ==
  \A r \in DataRows(grid) :
    grid[r][ColConfirmedAt] # "" => r \in everConfirmed \cup everOverridden

\* C4 witness: a record that was never CONFIRMED holds a confirmed_at,
\* written by an override.
C4_Witness ==
  \E r \in DataRows(grid) :
    /\ grid[r][ColConfirmedAt] = OverrideTs
    /\ r \in everOverridden
    /\ r \notin everConfirmed

(* ------------------------------------------------------------------ *)
(* C5                                                                   *)
(* ------------------------------------------------------------------ *)

\* C5: when findRowByOrderId settles inside updateOrderStatus and no row of
\* the ledger holds the order_id, the call returns false at that point,
\* logs "not found", has issued no store write, and the ledger is unchanged.
C5_NotFoundNoWrite ==
  [][\A p \in Procs :
       (/\ pc[p] = "upd_find"
        /\ pc'[p] # "upd_find"
        /\ RowsWithId(grid, arg[p].orderId) = {}) =>
         /\ pc'[p] = "done"
         /\ ret'[p] = "false"
         /\ log'[p][Len(log'[p])] = "not_found"
         /\ nwrites'[p] = 0
         /\ UNCHANGED store]_vars

\* C5 witness: updateOrderStatus has returned not-found on a ledger that
\* holds records, none with the given order_id, after a scan that succeeded.
C5_Witness ==
  \E p \in Procs :
    /\ pc[p] = "done"
    /\ op[p] = "updateOrderStatus"
    /\ log[p] = << "not_found" >>
    /\ ret[p] = "false"
    /\ nwrites[p] = 0
    /\ DataRows(grid) # {}
    /\ RowsWithId(grid, arg[p].orderId) = {}

(* ------------------------------------------------------------------ *)
(* C7                                                                   *)
(* ------------------------------------------------------------------ *)

\* C7: while initialize() has never been called, or its latest call has
\* returned false, a call of addOrder, updateOrderStatus, updateLastMessage
\* or getPendingOrderByPhone returns its failure value at once, having
\* issued no store read and no store write, and leaves the ledger unchanged.
C7_UninitializedNoOp ==
  [][\A p \in Procs :
       (/\ lastInit \in {"never", "false"}
        /\ pc[p] = "idle"
        /\ pc'[p] # "idle"
        /\ op'[p] \in GuardedOps) =>
         /\ pc'[p] = "done"
         /\ IsFailureValue(op'[p], ret'[p])
         /\ nreads'[p] = 0
         /\ nwrites'[p] = 0
         /\ UNCHANGED store]_vars

\* C7 witness: initialize() succeeded once, its latest call returned
\* false, and a lookup made afterwards was skipped.
C7_Witness ==
  \E p \in Procs :
    /\ lastInit = "false"
    /\ sheets = "client"
    /\ pc[p] = "done"
    /\ op[p] = "getPendingOrderByPhone"
    /\ log[p] = << "skip" >>
    /\ ret[p] = Null
    /\ nreads[p] = 0

(* ------------------------------------------------------------------ *)
(* C9                                                                   *)
(* ------------------------------------------------------------------ *)

\* C9: a step of addOrder, updateOrderStatus, updateLastMessage or
\* getPendingOrderByPhone in which a store call fails ends the call with
\* its failure value (false, or null for the lookup), never with a thrown
\* fault, and changes nothing in the store; when the row read of
\* updateOrderStatus does not lead to the write, the call ends there with
\* false and no write issued.
C9_StoreFailureContained ==
  [][\A p \in Procs :
       /\ (/\ op[p] \in GuardedOps
           /\ Len(log'[p]) > Len(log[p])
           /\ \E i \in (Len(log[p]) + 1)..Len(log'[p]) :
                log'[p][i] \in {"error", "find_error"}) =>
            /\ pc'[p] = "done"
            /\ IsFailureValue(op[p], ret'[p])
            /\ UNCHANGED store
       /\ (pc[p] = "upd_get" /\ pc'[p] # "upd_put") =>
            /\ pc'[p] \in {"upd_get", "done"}
            /\ pc'[p] = "done" =>
                 /\ ret'[p] = "false"
                 /\ nwrites'[p] = 0
                 /\ UNCHANGED store]_vars

\* C9 witness: updateOrderStatus found the row, its read of the row
\* failed, and the call returned false without a write.
C9_Witness ==
  \E p \in Procs :
    /\ pc[p] = "done"
    /\ op[p] = "updateOrderStatus"
    /\ log[p] = << "error" >>
    /\ ret[p] = "false"
    /\ nreads[p] = 2
    /\ nwrites[p] = 0
    /\ rowIndex[p] \in DataRows(grid)

(* ------------------------------------------------------------------ *)
(* C10                                                                  *)
(* ------------------------------------------------------------------ *)

\* C10: a successful append adds exactly one row, after all the rows there
\* were, and changes none of them; when the ledger already held a row with
\* the order's id it then holds one more, and the scan of findRowByOrderId
\* gives the position of the earliest of them.
C10_DuplicateAppend ==
  [][\A p \in Procs :
       (/\ pc[p] = "add_append"
        /\ Returns(p)
        /\ ret'[p] = "true") =>
         LET id == arg[p].order._id
         IN  /\ Len(grid') = Len(grid) + 1
             /\ \A i \in 1..Len(grid) : grid'[i] = grid[i]
             /\ grid'[Len(grid')] = row[p]
             /\ RowsWithId(grid, id) # {} =>
                  /\ RowsWithId(grid', id) = RowsWithId(grid, id) \cup {Len(grid')}
                  /\ FindRowResult(ValuesGetColumnA(grid'), id)
                       = MinOf(RowsWithId(grid, id))]_vars

\* C10 witness: the same order was appended twice and the ledger holds two
\* rows with its id.
C10_Witness ==
  \E p \in Procs :
    /\ pc[p] = "done"
    /\ op[p] = "addOrder"
    /\ ret[p] = "true"
    /\ Cardinality(RowsWithId(grid, arg[p].order._id)) = 2

(* ------------------------------------------------------------------ *)
(* Vocabulary of the lookup properties                                  *)
(* ------------------------------------------------------------------ *)

\* The digit characters of a phone text, in order.
Digits(s) == SelectSeq(PhoneChars(s), LAMBDA ch : ch \in DigitChars)

\* The character sequence b occurs in a as a contiguous run.
Contains(a, b) ==
  \E i \in 0..Len(a) : \E j \in i..Len(a) : SubSeq(a, i + 1, j) = b

\* Row i of g passes the phone test for the phone text.
PhoneQualifies(g, i, phone) ==
  \/ Contains(Digits(g[i][ColPhone]), Digits(phone))
  \/ Contains(Digits(phone), Digits(g[i][ColPhone]))

\* The rows of g below row 1 that are pending and pass the phone test.
Qualifying(g, phone) ==
  {i \in 2..Len(g) : g[i][ColStatus] = PENDING /\ PhoneQualifies(g, i, phone)}

\* rec is the record of row r: every field is the cell of its column.
IsRecordOf(rec, r) ==
  /\ rec # Null
  /\ << rec.orderId, rec.orderNumber, rec.customerName, rec.phone,
        rec.totalAmount, rec.itemsSummary, rec.status,
        rec.lastCustomerMessage, rec.confirmedAt, rec.createdAt >> = r

\* created_at of row i is not later than the timestamp ts.
NotLaterThan(g, i, ts) == StrRank(g[i][ColCreatedAt]) <= StrRank(ts)

\* The lookup of caller p has returned what its scan of the rows gave.
LookupDone(p) ==
  /\ pc[p] = "done"
  /\ op[p] = "getPendingOrderByPhone"
  /\ log[p] \in {<<>>, << "found" >>}

(* ------------------------------------------------------------------ *)
(* C11                                                                  *)
(* ------------------------------------------------------------------ *)

\* C11: on every ledger and for every phone, when some rows are pending
\* and match the phone, the lookup returns the record of one of them and
\* no such row has a later created_at than the returned one, wherever the
\* rows stand in the store.
C11_LatestPendingWins ==
  \A p \in Procs :
    LookupDone(p) =>
      LET q == Qualifying(grid, arg[p].phone)
      IN  q # {} =>
            /\ \E i \in q : IsRecordOf(ret[p], grid[i])
            /\ \A i \in q : NotLaterThan(grid, i, ret[p].createdAt)

\* C11 witness: two pending rows match the phone, the one created later
\* stands first in the store, and the lookup returned that one.
C11_Witness ==
  \E p \in Procs :
    /\ LookupDone(p)
    /\ \E i, j \in Qualifying(grid, arg[p].phone) :
         /\ i < j
         /\ StrRank(grid[i][ColCreatedAt]) > StrRank(grid[j][ColCreatedAt])
         /\ IsRecordOf(ret[p], grid[i])

(* ------------------------------------------------------------------ *)
(* C12                                                                  *)
(* ------------------------------------------------------------------ *)

\* C12: the lookup returns a record exactly when some row below row 1 is
\* pending and, digits only, its phone contains the input or the input
\* contains it; a returned record is the record of such a row, and the
\* result is null when there is none.
C12_RecordIffQualifies ==
  \A p \in Procs :
    LookupDone(p) =>
      LET q == Qualifying(grid, arg[p].phone)
      IN  /\ (ret[p] # Null) <=> (q # {})
          /\ ret[p] # Null => \E i \in q : IsRecordOf(ret[p], grid[i])

\* C12 witness: the lookup returned null on a ledger that holds a pending
\* row whose phone does not match and a matching row that is not pending.
C12_Witness ==
  \E p \in Procs :
    /\ LookupDone(p)
    /\ ret[p] = Null
    /\ \E i, j \in 2..Len(grid) :
         /\ grid[i][ColStatus] = PENDING
         /\ ~PhoneQualifies(grid, i, arg[p].phone)
         /\ grid[j][ColStatus] # PENDING
         /\ PhoneQualifies(grid, j, arg[p].phone)
         /\ Digits(grid[j][ColPhone]) # <<>>

(* ------------------------------------------------------------------ *)
(* C20                                                                  *)
(* ------------------------------------------------------------------ *)

\* C20: a phone without digits matches every row, and a row whose stored
\* phone has no digits matches every phone: the lookup then returns a
\* record, and no pending row (in the first case) and no pending row
\* without digits (in the second) has a later created_at than the
\* returned one.
C20_EmptyDigitsMatchAll ==
  \A p \in Procs :
    LookupDone(p) =>
      \A i \in 2..Len(grid) :
        (/\ grid[i][ColStatus] = PENDING
         /\ \/ Digits(arg[p].phone) = <<>>
            \/ Digits(grid[i][ColPhone]) = <<>>) =>
          /\ ret[p] # Null
          /\ NotLaterThan(grid, i, ret[p].createdAt)

\* C20 witness: a phone without digits was looked up on a ledger with two
\* pending rows, one with a phone that has digits and one with a phone
\* text that has none, and the lookup returned the later of the two, which
\* is the one with digits.
C20_Witness ==
  \E p \in Procs :
    /\ LookupDone(p)
    /\ Digits(arg[p].phone) = <<>>
    /\ \E i, j \in 2..Len(grid) :
         /\ grid[i][ColStatus] = PENDING
         /\ grid[j][ColStatus] = PENDING
         /\ Digits(grid[i][ColPhone]) # <<>>
         /\ grid[j][ColPhone] # ""
         /\ Digits(grid[j][ColPhone]) = <<>>
         /\ StrRank(grid[i][ColCreatedAt]) > StrRank(grid[j][ColCreatedAt])
         /\ IsRecordOf(ret[p], grid[i])

(* ------------------------------------------------------------------ *)
(* C13                                                                  *)
(* ------------------------------------------------------------------ *)

\* The cell of row r, column c of g (empty beyond the rows of g).
CellAt(g, r, c) == IF r \in 1..Len(g) THEN g[r][c] ELSE ""

\* The cells of g and h that differ, as << row, column >> pairs.
ChangedCells(g, h) ==
  {rc \in (1..(Len(g) + Len(h))) \X (1..NumCols) :
     CellAt(g, rc[1], rc[2]) # CellAt(h, rc[1], rc[2])}

\* C13: with two conversations interleaving, every step of an
\* updateLastMessage call changes no cell of the ledger other than the
\* last_customer_message cell of the row it located, which holds the
\* order_id; that cell is changed only by the write, to the message; so no
\* status or confirmed_at written by a transition is overwritten.  When no
\* row holds the order_id as the search settles, the call returns false
\* and has issued no write.
C13_MessageWritesOneCell ==
  [][\A p \in Procs :
       (pc[p] \in {"msg_find", "msg_put"} /\ pc'[p] # pc[p]) =>
         /\ ChangedCells(grid, grid') \subseteq
              (IF pc[p] = "msg_put" /\ ret'[p] = "true"
               THEN {<< rowIndex[p], ColMessage >>} ELSE {})
         /\ (pc[p] = "msg_put" /\ ret'[p] = "true") =>
              /\ grid'[rowIndex[p]][ColMessage] = arg[p].message
              /\ grid[rowIndex[p]][ColOrderId] = arg[p].orderId
         /\ (pc[p] = "msg_find" /\ RowsWithId(grid, arg[p].orderId) = {}) =>
              /\ pc'[p] = "done"
              /\ ret'[p] = "false"
              /\ nwrites'[p] = 0]_vars

\* C13 witness: a transition has written CONFIRMED and a confirmed_at to a
\* record; another transition on the record has read the row and not
\* written yet; a message update on the record was made in between and
\* returned true, and status and confirmed_at are as the transition
\* wrote them.
C13_Witness ==
  \E p, q \in Procs :
    /\ pc[q] = "done"
    /\ op[q] = "updateLastMessage"
    /\ ret[q] = "true"
    /\ pc[p] = "upd_put"
    /\ rowIndex[p] = rowIndex[q]
    /\ Cell(row[p], ColMessage) # arg[q].message
    /\ grid[rowIndex[q]][ColMessage] = arg[q].message
    /\ grid[rowIndex[q]][ColStatus] = CONFIRMED
    /\ grid[rowIndex[q]][ColConfirmedAt] # ""
    /\ rowIndex[q] \in everConfirmed

(* ------------------------------------------------------------------ *)
(* C14                                                                  *)
(* ------------------------------------------------------------------ *)

\* C14: with two conversations interleaving, a write of updateOrderStatus
\* that succeeds leaves in the row exactly the row the call built from
\* what it had read, with its own status, whatever the row holds by then,
\* and changes no other row; the call returns true.
C14_LaterWriteWins ==
  [][\A p \in Procs :
       (pc[p] = "upd_put" /\ pc'[p] = "done" /\ "updated" \in Lines(p)') =>
         /\ ret'[p] = "true"
         /\ \A c \in 1..NumCols : grid'[rowIndex[p]][c] = Cell(row[p], c)
         /\ grid'[rowIndex[p]][ColStatus] = arg[p].status
         /\ \A r \in 1..Len(grid) : r # rowIndex[p] => grid'[r] = grid[r]]_vars

\* C14 witness: two transitions on the same record, one to CONFIRMED and
\* one to CANCELLED, both returned true; the record is CANCELLED with an
\* empty confirmed_at: both had read the row before either wrote, and the
\* later write discarded the confirmed_at the other had set.
C14_Witness ==
  \E p, q \in Procs :
    /\ pc[p] = "done" /\ pc[q] = "done"
    /\ op[p] = "updateOrderStatus" /\ op[q] = "updateOrderStatus"
    /\ ret[p] = "true" /\ ret[q] = "true"
    /\ arg[p].orderId = arg[q].orderId
    /\ rowIndex[p] = rowIndex[q]
    /\ arg[p].status = CONFIRMED
    /\ arg[q].status = CANCELLED
    /\ grid[rowIndex[q]][ColStatus] = CANCELLED
    /\ grid[rowIndex[q]][ColConfirmedAt] = ""
    /\ rowIndex[p] \in everConfirmed

(* ------------------------------------------------------------------ *)
(* C15                                                                  *)
(* ------------------------------------------------------------------ *)

\* C15: in every step the number of order records does not decrease,
\* every order record keeps its position with its order_id and its
\* created_at, and a successful append puts its row below every row the
\* ledger held.
C15_NeverDeletedNorReordered ==
  [][/\ Cardinality(DataRows(grid')) >= Cardinality(DataRows(grid))
     /\ \A r \in DataRows(grid) :
          /\ r \in DataRows(grid')
          /\ grid'[r][ColOrderId] = grid[r][ColOrderId]
          /\ grid'[r][ColCreatedAt] = grid[r][ColCreatedAt]
     /\ \A p \in Procs :
          (pc[p] = "add_append" /\ pc'[p] = "done" /\ "added" \in Lines(p)') =>
            /\ Len(grid') > Len(grid)
            /\ grid'[Len(grid')][ColOrderId] = arg[p].order._id
            /\ \A r \in 1..Len(grid) : grid'[r] = grid[r]]_vars

(* ------------------------------------------------------------------ *)
(* C16                                                                  *)
(* ------------------------------------------------------------------ *)

\* The column the schema gives to the field called name.
ColumnOf(name) == CHOOSE c \in 1..NumCols : Headers[c] = name

\* C16: with calls made one after the other, the row a successful addOrder
\* appends has the schema's ten cells: the order's id and serial in the
\* order_id and order_number columns, status PENDING_CONFIRMATION, empty
\* last_customer_message and confirmed_at, and the instant of the call as
\* created_at; a successful updateOrderStatus(id, 'CONFIRMED') on an order
\* record leaves it with status CONFIRMED and a non-empty confirmed_at and
\* changes none of its other eight cells.
C16_RowLifecycle ==
  [][\A p \in Procs :
       /\ (pc[p] = "add_append" /\ pc'[p] = "done" /\ "added" \in Lines(p)') =>
            LET r == grid'[Len(grid')]
            IN  /\ DOMAIN r = 1..NumCols
                /\ NumCols = 10
                /\ r[ColumnOf("order_id")] = arg[p].order._id
                /\ r[ColumnOf("order_number")] = arg[p].order.orderSerial
                /\ r[ColumnOf("status")] = PENDING
                /\ r[ColumnOf("last_customer_message")] = ""
                /\ r[ColumnOf("confirmed_at")] = ""
                /\ r[ColumnOf("created_at")] \in {ISO[n] : n \in 1..clock}
       /\ (/\ pc[p] = "upd_put"
           /\ pc'[p] = "done"
           /\ "updated" \in Lines(p)'
           /\ arg[p].status = CONFIRMED
           /\ rowIndex[p] \in DataRows(grid)) =>
            LET r == rowIndex[p]
            IN  /\ grid'[r][ColumnOf("status")] = CONFIRMED
                /\ grid'[r][ColumnOf("confirmed_at")] # ""
                /\ \A c \in 1..NumCols :
                     c \notin {ColumnOf("status"), ColumnOf("confirmed_at")} =>
                       grid'[r][c] = grid[r][c]]_vars

\* C16 witness: an order was appended and then confirmed: the transition
\* has returned true and the record is CONFIRMED with the confirmed_at of
\* a later instant than its created_at.
C16_Witness ==
  \E p \in Procs :
    /\ pc[p] = "done"
    /\ op[p] = "updateOrderStatus"
    /\ ret[p] = "true"
    /\ arg[p].status = CONFIRMED
    /\ arg[p].orderId \in added
    /\ rowIndex[p] \in DataRows(grid)
    /\ grid[rowIndex[p]][ColStatus] = CONFIRMED
    /\ grid[rowIndex[p]][ColCreatedAt] = ISO[1]
    /\ grid[rowIndex[p]][ColConfirmedAt] = ISO[2]

(* ------------------------------------------------------------------ *)
(* C17                                                                  *)
(* ------------------------------------------------------------------ *)

\* Row r of g is the header row.
IsHeaderRow(g, r) == r = 1 /\ g[r][ColOrderId] = Headers[ColOrderId]

\* The rows of g other than the header row whose order_id cell is id.
DataRowsWithId(g, id) == {r \in RowsWithId(g, id) : ~IsHeaderRow(g, r)}

\* C17: when the read of findRowByOrderId resolves, the call returns the
\* position of the first row other than the header row whose order_id
\* cell is the argument, and -1 when there is none, also for the argument
\* 'order_id'; and no step of updateOrderStatus or updateLastMessage
\* changes a cell of the header row.
C17_ScanSkipsHeader ==
  [][\A p \in Procs :
       /\ (pc[p] = "find_get" /\ pc'[p] = "done" /\ log'[p] = <<>>) =>
            LET hits == DataRowsWithId(grid, arg[p].orderId)
            IN  ret'[p] = IF hits = {} THEN -1 ELSE MinOf(hits)
       /\ (/\ pc[p] \in {"upd_put", "msg_put"}
           /\ pc'[p] = "done"
           /\ Len(grid) >= 1
           /\ IsHeaderRow(grid, 1)) =>
            grid'[1] = grid[1]]_vars

(* ------------------------------------------------------------------ *)
(* C18                                                                  *)
(* ------------------------------------------------------------------ *)

\* C18: with calls made one after the other, a lookup does not return the
\* record of an order_id that a single row holds and whose latest
\* successful transition was to a status other than PENDING_CONFIRMATION.
C18_NotPendingNotReturned ==
  \A p \in Procs :
    (LookupDone(p) /\ ret[p] # Null) =>
      (Cardinality(RowsWithId(grid, ret[p].orderId)) <= 1 =>
         lastStatus[ret[p].orderId] \in {"", PENDING})

\* C18 witness: a lookup returned null for a phone that matches a record
\* whose order_id no other row holds and whose latest successful
\* transition was to CONFIRMED or CANCELLED.
C18_Witness ==
  \E p \in Procs :
    /\ LookupDone(p)
    /\ ret[p] = Null
    /\ \E r \in 2..Len(grid) :
         /\ r \in DataRows(grid)
         /\ PhoneQualifies(grid, r, arg[p].phone)
         /\ Digits(arg[p].phone) # <<>>
         /\ Cardinality(RowsWithId(grid, grid[r][ColOrderId])) = 1
         /\ lastStatus[grid[r][ColOrderId]] \in {CONFIRMED, CANCELLED}

(* ------------------------------------------------------------------ *)
(* C19                                                                  *)
(* ------------------------------------------------------------------ *)

\* C19: with calls made one after the other, when two or more order
\* records hold the order_id, the write of updateOrderStatus or
\* updateLastMessage for it goes to the first of them and changes no other
\* row; afterwards every later one of them is still PENDING_CONFIRMATION
\* and a lookup by its own phone returns a record.
C19_OnlyFirstDuplicateModified ==
  [][\A p \in Procs :
       (pc[p] \in {"upd_put", "msg_put"} /\ pc'[p] = "done") =>
         LET dups == RowsWithId(grid, arg[p].orderId) \cap DataRows(grid)
         IN  Cardinality(dups) >= 2 =>
               /\ "updated" \in Lines(p)' => rowIndex[p] = MinOf(dups)
               /\ Len(grid') = Len(grid)
               /\ \A r \in 1..Len(grid) : r # MinOf(dups) => grid'[r] = grid[r]
               /\ \A r \in dups \ {MinOf(dups)} :
                    /\ grid'[r][ColStatus] = PENDING
                    /\ PendingResult(ValuesGetData(grid'), grid'[r][ColPhone])
                         # Null]_vars

\* C19 witness: an order was appended twice and then confirmed: the
\* transition returned true, the first of the two rows is CONFIRMED and
\* the second is still PENDING_CONFIRMATION.
C19_Witness ==
  \E p \in Procs :
    /\ pc[p] = "done"
    /\ op[p] = "updateOrderStatus"
    /\ ret[p] = "true"
    /\ arg[p].status = CONFIRMED
    /\ \E r1, r2 \in RowsWithId(grid, arg[p].orderId) \cap DataRows(grid) :
         /\ r1 < r2
         /\ rowIndex[p] = r1
         /\ grid[r1][ColStatus] = CONFIRMED
         /\ grid[r2][ColStatus] = PENDING

====
